---- MODULE Spec2Model ----
(***************************************************************************)
(* A model of the Supabase REST client built by createSupabaseClient       *)
(* (src/client/index.ts, the variant with the `request` and `auth`         *)
(* primitives and every public method defined directly on the client).     *)
(*                                                                         *)
(* Conventions.                                                            *)
(*  - A JS string that is inspected character-wise (an endpoint, a URL, a  *)
(*    JSON body, an error message) is a sequence of string tokens.  A      *)
(*    string that begins with the characters http has "http" as its first  *)
(*    token; the characters ? / = & that matter to the code stand alone    *)
(*    as tokens wherever the code tests or inserts them.  Hence            *)
(*    s.startsWith('http') is Head(s) = "http" and s.includes('?') is      *)
(*    "?" \in Range(s).                                                    *)
(*  - Other JS strings (keys, tokens, e-mails, response texts) are TLA+    *)
(*    strings; the JS value undefined, where a string is expected, is the  *)
(*    value Undefined.                                                     *)
(*  - Any other JS value is a record [t, s, kv]: see Undef, Str, Obj.      *)
(*  - An optional field of an error (statusCode?, response?) is a set      *)
(*    with at most one element.                                            *)
(***************************************************************************)
EXTENDS Integers, Sequences, FiniteSets, TLC

\* The number of calls that may await the transport at the same time.
MaxInflight == 1

Range(s) == {s[i] : i \in 1..Len(s)}

---------------------------------------------------------------------------
(* JS values *)

Undefined == "<undefined>"

Undef == [t |-> "undefined", s |-> "", kv |-> <<>>]
Null == [t |-> "null", s |-> "", kv |-> <<>>]
Str(x) == [t |-> "string", s |-> x, kv |-> <<>>]
\* An object of string-valued properties, in insertion order.
Obj(kv) == [t |-> "object", s |-> "", kv |-> kv]
\* An array holding one object with the properties kv.
Arr(kv) == [t |-> "array", s |-> "", kv |-> kv]

\* Object.keys(o)
Keys(o) == [i \in 1..Len(o.kv) |-> o.kv[i][1]]

---------------------------------------------------------------------------
(* utils/constants *)

REST_API_PATH == <<"/", "rest/v1">>
AUTH_API_PATH == <<"/", "auth/v1">>
TOKEN_API_PATH == AUTH_API_PATH \o <<"/token">>
SIGNUP_API_PATH == AUTH_API_PATH \o <<"/signup">>
MAGIC_LINK_API_PATH == AUTH_API_PATH \o <<"/magiclink">>
RECOVER_API_PATH == AUTH_API_PATH \o <<"/recover">>
VERIFY_API_PATH == AUTH_API_PATH \o <<"/verify">>
USER_API_PATH == AUTH_API_PATH \o <<"/user">>
LOGOUT_API_PATH == AUTH_API_PATH \o <<"/logout">>
INVITE_API_PATH == AUTH_API_PATH \o <<"/invite">>
RESET_API_PATH == AUTH_API_PATH \o <<"/reset">>

ERROR_MESSAGES ==
  [INVALID_RESPONSE |-> <<"Invalid response from server">>,
   REQUEST_FAILED |-> <<"Request failed">>,
   INVALID_CONFIG |-> <<"Invalid client configuration">>,
   NETWORK_ERROR |-> <<"Network error", " occurred">>,
   PARSE_ERROR |-> <<"Failed to parse response">>]

---------------------------------------------------------------------------
(* Errors *)

NoError == [cls |-> "none", message |-> <<>>, statusCode |-> {}, response |-> {}]

\* new SupabaseError(message, statusCode?, response?)
SupabaseError(message, statusCode, response) ==
  [cls |-> "SupabaseError", message |-> message,
   statusCode |-> statusCode, response |-> response]

\* An error that is not the client's: what the transport or the JSON parser throws.
ForeignError(cls, message) ==
  [cls |-> cls, message |-> message, statusCode |-> {}, response |-> {}]

Resolved(v) == [kind |-> "resolved", value |-> v, error |-> NoError]
Rejected(e) == [kind |-> "rejected", value |-> Undef, error |-> e]
NoOutcome == [kind |-> "none", value |-> Undef, error |-> NoError]

---------------------------------------------------------------------------
(* The client's state *)

VARIABLES
  phase,     \* "new": createSupabaseClient not yet called; "ready"; "failed": it threw
  thrown,    \* what createSupabaseClient threw (NoError if nothing)
  baseUrl,   \* the closure variables of createSupabaseClient
  apiKey,
  token,
  inflight,  \* the calls suspended at `await fetch(...)`, by slot
  settled,   \* the most recently completed operation and its outcome
  lastSet,   \* history: the argument of the latest setToken, or config.token
  given,     \* history: the baseUrl and apiKey createSupabaseClient was called with
  peer       \* the closure (and history) of the caller's other client, if it uses two

vars ==
  <<phase, thrown, baseUrl, apiKey, token, inflight, settled, lastSet, given, peer>>

\* !x for a string-or-undefined x
Falsy(x) == x = Undefined \/ x = ""

---------------------------------------------------------------------------
(* The transport: what fetch can answer *)

T_USERS == "[{\"id\":1,\"name\":\"Test\"}]"
T_OBJ == "{\"id\":\"2\"}"
T_OBJ_WS == "{ \"id\" : \"2\" }"
T_BAD == "Bad Request"
T_TOKEN == "{\"access_token\":\"access_token_value\",\"token_type\":\"bearer\",\"expires_in\":3600,\"refresh_token\":\"refresh_token_value\"}"

\* <<status, body text>>
Responses ==
  {<<200, T_USERS>>, <<200, T_OBJ_WS>>, <<201, T_OBJ>>, <<200, T_BAD>>, <<204, "">>,
   <<200, T_TOKEN>>, <<400, T_BAD>>, <<400, T_OBJ>>, <<500, "">>}

\* What a rejected fetch throws.
Causes ==
  {ForeignError("Error", <<"Network error">>),
   ForeignError("TypeError", <<"fetch failed">>)}

NoNet == [kind |-> "none", status |-> 0, text |-> "", cause |-> NoError]
HttpResponse(status, text) ==
  [kind |-> "response", status |-> status, text |-> text, cause |-> NoError]
FetchRejection(cause) ==
  [kind |-> "failure", status |-> 0, text |-> "", cause |-> cause]

\* Response.ok
Ok(response) == response.status >= 200 /\ response.status <= 299

\* String(status), as a template literal prints it
StatusText(status) ==
  CASE status = 200 -> "200" [] status = 201 -> "201" [] status = 204 -> "204"
    [] status = 400 -> "400" [] status = 500 -> "500"

\* JSON.parse(text): [ok |-> FALSE] when it throws a SyntaxError.
JSONParse(text) ==
  CASE text = T_USERS -> [ok |-> TRUE, value |-> Arr(<<<<"id", "1">>, <<"name", "Test">>>>)]
    [] text = T_OBJ -> [ok |-> TRUE, value |-> Obj(<<<<"id", "2">>>>)]
    [] text = T_OBJ_WS -> [ok |-> TRUE, value |-> Obj(<<<<"id", "2">>>>)]
    [] text = T_TOKEN ->
         [ok |-> TRUE,
          value |-> Obj(<<<<"access_token", "access_token_value">>,
                          <<"token_type", "bearer">>,
                          <<"expires_in", "3600">>,
                          <<"refresh_token", "refresh_token_value">>>>)]
    [] text = "null" -> [ok |-> TRUE, value |-> Null]
    [] OTHER -> [ok |-> FALSE, value |-> Undef]

SyntaxError == ForeignError("SyntaxError", <<"Unexpected token">>)

\* JSON.stringify(v) for the values the client sends
RECURSIVE StringifyEntries(_)
StringifyEntries(kv) ==
  IF kv = <<>> THEN <<>>
  ELSE <<"\"", kv[1][1], "\"", ":", "\"", kv[1][2], "\"">>
       \o (IF Len(kv) > 1 THEN <<",">> ELSE <<>>)
       \o StringifyEntries(Tail(kv))

JSONStringify(v) ==
  CASE v.t = "object" -> <<"{">> \o StringifyEntries(v.kv) \o <<"}">>
    [] v.t = "array" -> <<"[", "{">> \o StringifyEntries(v.kv) \o <<"}", "]">>
    [] v.t = "string" -> <<"\"", v.s, "\"">>
    [] v.t = "null" -> <<"null">>
    [] OTHER -> <<>>

\* The application/x-www-form-urlencoded form of one name or value
FormEncode(x) ==
  CASE x = "a b" -> "a+b"
    [] x = "x&y" -> "x%26y"
    [] OTHER -> x

\* new URLSearchParams(o).toString()
RECURSIVE URLSearchParams(_)
URLSearchParams(kv) ==
  IF kv = <<>> THEN <<>>
  ELSE <<FormEncode(kv[1][1]), "=", FormEncode(kv[1][2])>>
       \o (IF Len(kv) > 1 THEN <<"&">> ELSE <<>>)
       \o URLSearchParams(Tail(kv))

\* endpoint.startsWith('http')
StartsWithHttp(endpoint) == endpoint # <<>> /\ Head(endpoint) = "http"

---------------------------------------------------------------------------
(* The two primitives, up to `await fetch(url, options)` *)

\* Headers with `token ?? apiKey` in place of `token || apiKey`: an empty token
\* is sent as the credential.
Headers_nullish ==
  [apikey |-> apiKey,
   Authorization |-> <<"Bearer ", IF token = Undefined THEN apiKey ELSE token>>,
   ContentType |-> "application/json"]

\* Headers with `token ?? ''` as the credential: no API key in place of a token.
Headers_noFallback ==
  [apikey |-> apiKey,
   Authorization |-> <<"Bearer ", IF token = Undefined THEN "" ELSE token>>,
   ContentType |-> "application/json"]

\* The headers literal of request and of auth
Headers ==
  [apikey |-> apiKey,
   Authorization |-> <<"Bearer ", IF Falsy(token) THEN apiKey ELSE token>>,
   ContentType |-> "application/json"]

\* request that always joins the parameters with "?", whatever the URL holds.
request_alwaysQuestionMark(method, endpoint, body, queryParams) ==
  LET url0 == IF StartsWithHttp(endpoint) THEN endpoint
              ELSE <<baseUrl, "/">> \o endpoint
      url  == IF queryParams.t # "undefined" /\ Len(Keys(queryParams)) > 0
              THEN url0 \o <<"?">> \o URLSearchParams(queryParams.kv)
              ELSE url0
  IN [prim |-> "request", method |-> method, url |-> url, headers |-> Headers,
      hasBody |-> body.t # "undefined",
      body |-> IF body.t # "undefined" THEN JSONStringify(body) ELSE <<>>]

\* request(method, endpoint, body?, queryParams?): the fetch it issues
request(method, endpoint, body, queryParams) ==
  LET url0 == IF StartsWithHttp(endpoint) THEN endpoint
              ELSE <<baseUrl, "/">> \o endpoint
      url  == IF queryParams.t # "undefined" /\ Len(Keys(queryParams)) > 0
              THEN url0
                   \o <<IF "?" \in Range(url0) THEN "&" ELSE "?">>
                   \o URLSearchParams(queryParams.kv)
              ELSE url0
  IN [prim |-> "request", method |-> method, url |-> url, headers |-> Headers,
      hasBody |-> body.t # "undefined",
      body |-> IF body.t # "undefined" THEN JSONStringify(body) ELSE <<>>]

\* auth(endpoint, payload): the fetch it issues
auth(endpoint, payload) ==
  LET url == IF StartsWithHttp(endpoint) THEN endpoint
             ELSE <<baseUrl, "/">> \o endpoint
  IN [prim |-> "auth", method |-> "POST", url |-> url, headers |-> Headers,
      hasBody |-> TRUE, body |-> JSONStringify(payload)]

(* The two primitives, from the answer of fetch on *)

\* requestSettle with the empty-body shortcut taken before the status check.
requestSettle_emptyFirst(net) ==
  IF net.kind = "failure" THEN Rejected(net.cause)
  ELSE IF net.text = "" THEN Resolved(Obj(<<>>))
  ELSE IF ~Ok(net)
  THEN Rejected(SupabaseError(
         <<"Request failed", ": ", StatusText(net.status), " ", net.text>>, {}, {}))
  ELSE IF JSONParse(net.text).ok THEN Resolved(JSONParse(net.text).value)
  ELSE Resolved(Str(net.text))

\* requestSettle without the catch around JSON.parse: a body that is not JSON throws.
requestSettle_strictParse(net) ==
  IF net.kind = "failure" THEN Rejected(net.cause)
  ELSE IF ~Ok(net)
  THEN Rejected(SupabaseError(
         <<"Request failed", ": ", StatusText(net.status), " ", net.text>>, {}, {}))
  ELSE IF net.text = "" THEN Resolved(Obj(<<>>))
  ELSE IF JSONParse(net.text).ok THEN Resolved(JSONParse(net.text).value)
  ELSE Rejected(SyntaxError)

\* requestSettle inside a try whose catch wraps whatever was thrown, the client's
\* own error included, as a network error.
requestSettle_rewrapsOwnError(net) ==
  IF net.kind = "failure" THEN Rejected(net.cause)
  ELSE IF ~Ok(net)
  THEN Rejected(SupabaseError(ERROR_MESSAGES.NETWORK_ERROR, {},
         {SupabaseError(
            <<"Request failed", ": ", StatusText(net.status), " ", net.text>>, {}, {})}))
  ELSE IF net.text = "" THEN Resolved(Obj(<<>>))
  ELSE IF JSONParse(net.text).ok THEN Resolved(JSONParse(net.text).value)
  ELSE Resolved(Str(net.text))

\* request: lines after `await fetch`
requestSettle(net) ==
  IF net.kind = "failure" THEN Rejected(net.cause)
  ELSE IF ~Ok(net)
  THEN Rejected(SupabaseError(
         <<"Request failed", ": ", StatusText(net.status), " ", net.text>>, {}, {}))
  ELSE IF net.text = "" THEN Resolved(Obj(<<>>))
  ELSE IF JSONParse(net.text).ok THEN Resolved(JSONParse(net.text).value)
  ELSE Resolved(Str(net.text))

\* authSettle that hands back only the first property of the parsed object.
authSettle_firstFieldOnly(net) ==
  IF net.kind = "failure" THEN Rejected(net.cause)
  ELSE IF ~Ok(net)
  THEN Rejected(SupabaseError(
         <<"Auth request failed", ": ", StatusText(net.status), " ", net.text>>, {}, {}))
  ELSE IF JSONParse(net.text).ok
  THEN Resolved([JSONParse(net.text).value EXCEPT
                   !.kv = SubSeq(@, 1, IF Len(@) > 0 THEN 1 ELSE 0)])
  ELSE Rejected(SyntaxError)

\* authSettle with the lenient body handling of request: {} for an empty text and
\* the text itself when it is not JSON.
authSettle_lenient(net) ==
  IF net.kind = "failure" THEN Rejected(net.cause)
  ELSE IF ~Ok(net)
  THEN Rejected(SupabaseError(
         <<"Auth request failed", ": ", StatusText(net.status), " ", net.text>>, {}, {}))
  ELSE IF net.text = "" THEN Resolved(Obj(<<>>))
  ELSE IF JSONParse(net.text).ok THEN Resolved(JSONParse(net.text).value)
  ELSE Resolved(Str(net.text))

\* auth: lines after `await fetch`
authSettle(net) ==
  IF net.kind = "failure" THEN Rejected(net.cause)
  ELSE IF ~Ok(net)
  THEN Rejected(SupabaseError(
         <<"Auth request failed", ": ", StatusText(net.status), " ", net.text>>, {}, {}))
  ELSE IF JSONParse(net.text).ok THEN Resolved(JSONParse(net.text).value)
  ELSE Rejected(SyntaxError)

---------------------------------------------------------------------------
(* The public methods: the fetch each one issues *)

GrantType(g) == <<"?", "grant_type", "=", g>>

signUp(email, password) ==
  request("POST", SIGNUP_API_PATH \o GrantType("signup"),
          Obj(<<<<"email", email>>, <<"password", password>>>>), Undef)

signIn(email, password) ==
  auth(TOKEN_API_PATH \o GrantType("password"),
       Obj(<<<<"email", email>>, <<"password", password>>>>))

refreshToken(refreshTokenValue) ==
  auth(TOKEN_API_PATH \o GrantType("refresh_token"),
       Obj(<<<<"refresh_token", refreshTokenValue>>>>))

sendMagicLink(email) ==
  request("POST", MAGIC_LINK_API_PATH, Obj(<<<<"email", email>>>>), Undef)

sendPasswordRecovery(email) ==
  request("POST", RECOVER_API_PATH, Obj(<<<<"email", email>>>>), Undef)

verifyOTP(email, tokenValue, otpType) ==
  request("POST", VERIFY_API_PATH,
          Obj(<<<<"email", email>>, <<"token", tokenValue>>, <<"type", otpType>>>>),
          Undef)

getUser == request("GET", USER_API_PATH, Undef, Undef)

updateUser(payload) == request("PUT", USER_API_PATH, payload, Undef)

signOut == request("POST", LOGOUT_API_PATH, Undef, Undef)

inviteUser(email) ==
  request("POST", INVITE_API_PATH, Obj(<<<<"email", email>>>>), Undef)

\* resetPassword that sends the new password under the key newPassword.
resetPassword_newPasswordKey(tokenValue, newPassword) ==
  request("POST", RESET_API_PATH \o GrantType("reset_password"),
          Obj(<<<<"token", tokenValue>>, <<"newPassword", newPassword>>>>), Undef)

resetPassword(tokenValue, newPassword) ==
  request("POST", RESET_API_PATH \o GrantType("reset_password"),
          Obj(<<<<"token", tokenValue>>, <<"password", newPassword>>>>), Undef)

\* formatQueryParams of the class-based client: every value v becomes eq.<v>
EqValue(v) ==
  CASE v = "1" -> "eq.1"
    [] v = "eq.123" -> "eq.eq.123"
    [] v = "a b" -> "eq.a%20b"
    [] v = "admin" -> "eq.admin"
    [] OTHER -> "eq."

\* get with its parameters formatted by formatQueryParams before the request.
get_eqPrefix(endpoint, queryParams) ==
  IF queryParams.t # "undefined"
  THEN request("GET", endpoint, Undef,
               Obj([i \in 1..Len(queryParams.kv) |->
                      <<queryParams.kv[i][1], EqValue(queryParams.kv[i][2])>>]))
  ELSE request("GET", endpoint, Undef, Undef)

get(endpoint, queryParams) ==
  IF queryParams.t # "undefined"
  THEN request("GET", endpoint, Undef, queryParams)
  ELSE request("GET", endpoint, Undef, Undef)

post(endpoint, data) == request("POST", endpoint, data, Undef)

\* put with the filter and the data handed to request in each other's place.
put_swapped(endpoint, primaryKeyName, primaryKeyValue, data) ==
  request("PUT", endpoint, Obj(<<<<primaryKeyName, primaryKeyValue>>>>), data)

put(endpoint, primaryKeyName, primaryKeyValue, data) ==
  request("PUT", endpoint, data, Obj(<<<<primaryKeyName, primaryKeyValue>>>>))

patch(endpoint, queryParams, data) ==
  request("PATCH", endpoint, data, queryParams)

\* del hands its filter to request as the third argument, which is `body`
del(endpoint, primaryKeyName, primaryKeyValue) ==
  request("DELETE", endpoint, Obj(<<<<primaryKeyName, primaryKeyValue>>>>), Undef)

\* delete with an implementation of its own, the filter in the query string.
delete_filterInQuery(endpoint, primaryKeyName, primaryKeyValue) ==
  request("DELETE", endpoint, Undef, Obj(<<<<primaryKeyName, primaryKeyValue>>>>))

\* get delete() { return this.del }
delete(endpoint, primaryKeyName, primaryKeyValue) ==
  del(endpoint, primaryKeyName, primaryKeyValue)

\* setToken that keeps the old token when given the empty string.
setToken_ignoreEmpty(newToken) == IF newToken = "" THEN token ELSE newToken

\* setToken: the value it stores in `token`
setToken(newToken) == newToken

\* getToken: the value it returns
getToken == token

\* The validation with the apiKey test left out.
InvalidConfig_baseUrlOnly(config) == Falsy(config.baseUrl)

\* if (!config.baseUrl || !config.apiKey)
InvalidConfig(config) == Falsy(config.baseUrl) \/ Falsy(config.apiKey)

---------------------------------------------------------------------------
(* Inputs *)

Configs ==
  [baseUrl : {Undefined, "", "https://example.supabase.co"},
   apiKey : {Undefined, "", "test_api_key"},
   token : {Undefined, "jwt"}]

NewTokens == {"", "jwt"}
Emails == {"test@example.com"}
Passwords == {"password123"}
OtpCodes == {"123456"}
OtpTypes == {"signup"}
RefreshTokens == {"refresh_token_value"}
UserPayloads == {Obj(<<<<"phone", "555">>>>)}

Tables == {<<"users">>, <<"orders", "?", "select", "=", "id">>}
KeyNames == {"id"}
KeyValues == {"1"}
Rows == {Obj(<<<<"name", "New User">>>>)}
Filters ==
  {Obj(<<>>), Obj(<<<<"id", "1">>>>), Obj(<<<<"id", "eq.123">>>>),
   Obj(<<<<"status", "a b">>, <<"role", "admin">>>>)}

\* Direct uses of the request primitive: <<method, endpoint, body, queryParams>>
RawRequests ==
  {<<"GET", <<"http", "s://other.example/rest/v1/users">>, Undef, Obj(<<<<"id", "1">>>>)>>,
   <<"GET", <<"users">>, Obj(<<<<"name", "New User">>>>), Undef>>,
   <<"DELETE", <<"users">>, Undef, Obj(<<<<"id", "1">>>>)>>,
   <<"GET", <<"http", "_logs">>, Undef, Undef>>}

\* Direct uses of the auth primitive: <<endpoint, payload>>
RawAuths ==
  {<<TOKEN_API_PATH \o GrantType("password"),
     Obj(<<<<"email", "test@example.com">>, <<"password", "password123">>>>)>>}

---------------------------------------------------------------------------
(* Calls in flight *)

Args(endpoint, strs, data, qp) ==
  [endpoint |-> endpoint, strs |-> strs, data |-> data, qp |-> qp]
NoArgs == Args(<<>>, <<>>, Undef, Undef)

Idle ==
  [op |-> "idle", args |-> NoArgs,
   req |-> [prim |-> "idle", method |-> "", url |-> <<>>,
            headers |-> [apikey |-> "", Authorization |-> <<>>, ContentType |-> ""],
            hasBody |-> FALSE, body |-> <<>>]]

Slots == 1..MaxInflight
Busy == {i \in Slots : inflight[i] # Idle}
FreeSlot == CHOOSE i \in Slots : inflight[i] = Idle /\ \A j \in Slots : j < i => inflight[j] # Idle

NothingSettled == [prim |-> "none", net |-> NoNet, outcome |-> NoOutcome]

\* Invoke with a token that is spent by the call that presents it.
Invoke_spendsToken(op, args, req) ==
  /\ phase = "ready"
  /\ Busy # Slots
  /\ inflight' = [inflight EXCEPT ![FreeSlot] = [op |-> op, args |-> args, req |-> req]]
  /\ token' = Undefined
  /\ UNCHANGED <<phase, thrown, baseUrl, apiKey, settled, lastSet, given, peer>>

\* A public method is invoked and runs up to its `await fetch`.
Invoke(op, args, req) ==
  /\ phase = "ready"
  /\ Busy # Slots
  /\ inflight' = [inflight EXCEPT ![FreeSlot] = [op |-> op, args |-> args, req |-> req]]
  /\ UNCHANGED <<phase, thrown, baseUrl, apiKey, token, settled, lastSet, given, peer>>

---------------------------------------------------------------------------
(* Actions *)

\* A client that createSupabaseClient has not been called for yet; id numbers the
\* caller's two clients, the client in phase, baseUrl, ... being number 3 - peer.id.
NoClient ==
  [id |-> 2, phase |-> "new", thrown |-> NoError, baseUrl |-> Undefined,
   apiKey |-> Undefined, token |-> Undefined, lastSet |-> Undefined,
   given |-> [baseUrl |-> Undefined, apiKey |-> Undefined]]

Init ==
  /\ phase = "new"
  /\ thrown = NoError
  /\ baseUrl = Undefined
  /\ apiKey = Undefined
  /\ token = Undefined
  /\ inflight = [i \in Slots |-> Idle]
  /\ settled = NothingSettled
  /\ lastSet = Undefined
  /\ given = [baseUrl |-> Undefined, apiKey |-> Undefined]
  /\ peer = NoClient

\* createSupabaseClient(config)
Create(config) ==
  /\ phase = "new"
  /\ given' = [baseUrl |-> config.baseUrl, apiKey |-> config.apiKey]
  /\ IF InvalidConfig(config)
     THEN /\ phase' = "failed"
          /\ thrown' = SupabaseError(ERROR_MESSAGES.INVALID_CONFIG, {}, {})
          /\ UNCHANGED <<baseUrl, apiKey, token, lastSet>>
     ELSE /\ phase' = "ready"
          /\ baseUrl' = config.baseUrl
          /\ apiKey' = config.apiKey
          /\ token' = config.token
          /\ lastSet' = config.token
          /\ UNCHANGED thrown
  /\ UNCHANGED <<inflight, settled, peer>>

Construct == \E config \in Configs : Create(config)

\* setToken whose new value also reaches the headers of the calls in flight.
SetToken_reachesInflight ==
  \E newToken \in NewTokens :
    /\ phase = "ready"
    /\ token' = setToken(newToken)
    /\ lastSet' = newToken
    /\ settled' = [prim |-> "setToken", net |-> NoNet, outcome |-> Resolved(Undef)]
    /\ inflight' =
         [i \in Slots |->
            IF inflight[i] = Idle THEN Idle
            ELSE [inflight[i] EXCEPT
                    !.req.headers.Authorization =
                      <<"Bearer ", IF Falsy(newToken) THEN apiKey ELSE newToken>>]]
    /\ UNCHANGED <<phase, thrown, baseUrl, apiKey, given, peer>>

SetToken ==
  \E newToken \in NewTokens :
    /\ phase = "ready"
    /\ token' = setToken(newToken)
    /\ lastSet' = newToken
    /\ settled' = [prim |-> "setToken", net |-> NoNet, outcome |-> Resolved(Undef)]
    /\ UNCHANGED <<phase, thrown, baseUrl, apiKey, inflight, given, peer>>

GetToken ==
  /\ phase = "ready"
  /\ settled' = [prim |-> "getToken", net |-> NoNet,
                 outcome |-> Resolved(IF getToken = Undefined THEN Undef ELSE Str(getToken))]
  /\ UNCHANGED <<phase, thrown, baseUrl, apiKey, token, inflight, lastSet, given, peer>>

SignUp ==
  \E email \in Emails, password \in Passwords :
    Invoke("signUp", Args(<<>>, <<email, password>>, Undef, Undef), signUp(email, password))

SignIn ==
  \E email \in Emails, password \in Passwords :
    Invoke("signIn", Args(<<>>, <<email, password>>, Undef, Undef), signIn(email, password))

RefreshToken ==
  \E r \in RefreshTokens :
    Invoke("refreshToken", Args(<<>>, <<r>>, Undef, Undef), refreshToken(r))

SendMagicLink ==
  \E email \in Emails :
    Invoke("sendMagicLink", Args(<<>>, <<email>>, Undef, Undef), sendMagicLink(email))

SendPasswordRecovery ==
  \E email \in Emails :
    Invoke("sendPasswordRecovery", Args(<<>>, <<email>>, Undef, Undef),
           sendPasswordRecovery(email))

VerifyOTP ==
  \E email \in Emails, code \in OtpCodes, type \in OtpTypes :
    Invoke("verifyOTP", Args(<<>>, <<email, code, type>>, Undef, Undef),
           verifyOTP(email, code, type))

GetUser == Invoke("getUser", NoArgs, getUser)

UpdateUser ==
  \E payload \in UserPayloads :
    Invoke("updateUser", Args(<<>>, <<>>, payload, Undef), updateUser(payload))

SignOut == Invoke("signOut", NoArgs, signOut)

InviteUser ==
  \E email \in Emails :
    Invoke("inviteUser", Args(<<>>, <<email>>, Undef, Undef), inviteUser(email))

ResetPassword ==
  \E code \in OtpCodes, password \in Passwords :
    Invoke("resetPassword", Args(<<>>, <<code, password>>, Undef, Undef),
           resetPassword(code, password))

Get ==
  \E endpoint \in Tables, queryParams \in Filters \cup {Undef} :
    Invoke("get", Args(endpoint, <<>>, Undef, queryParams), get(endpoint, queryParams))

Post ==
  \E endpoint \in Tables, data \in Rows :
    Invoke("post", Args(endpoint, <<>>, data, Undef), post(endpoint, data))

Put ==
  \E endpoint \in Tables, k \in KeyNames, v \in KeyValues, data \in Rows :
    Invoke("put", Args(endpoint, <<k, v>>, data, Undef), put(endpoint, k, v, data))

Patch ==
  \E endpoint \in Tables, queryParams \in Filters, data \in Rows :
    Invoke("patch", Args(endpoint, <<>>, data, queryParams),
           patch(endpoint, queryParams, data))

Del ==
  \E endpoint \in Tables, k \in KeyNames, v \in KeyValues :
    Invoke("del", Args(endpoint, <<k, v>>, Undef, Undef), del(endpoint, k, v))

Delete ==
  \E endpoint \in Tables, k \in KeyNames, v \in KeyValues :
    Invoke("delete", Args(endpoint, <<k, v>>, Undef, Undef), delete(endpoint, k, v))

Request ==
  \E r \in RawRequests :
    Invoke("request", Args(r[2], <<r[1]>>, r[3], r[4]), request(r[1], r[2], r[3], r[4]))

Auth ==
  \E a \in RawAuths :
    Invoke("auth", Args(a[1], <<>>, a[2], Undef), auth(a[1], a[2]))

\* Settle that keeps the access_token of a token response as the client's token.
Settle_keepsAccessToken(i, net) ==
  /\ settled' = [prim |-> inflight[i].req.prim, net |-> net,
                 outcome |-> IF inflight[i].req.prim = "auth"
                             THEN authSettle(net) ELSE requestSettle(net)]
  /\ inflight' = [inflight EXCEPT ![i] = Idle]
  /\ token' = IF inflight[i].req.prim = "auth" /\ authSettle(net).kind = "resolved"
                 /\ "access_token" \in Range(Keys(authSettle(net).value))
              THEN "access_token_value" ELSE token
  /\ UNCHANGED <<phase, thrown, baseUrl, apiKey, lastSet, given, peer>>

\* Settle that never completes a call of the auth primitive: the promise that
\* auth returns is left pending whatever fetch answers.
Settle_authNeverSettles(i, net) ==
  /\ inflight[i].req.prim # "auth"
  /\ settled' = [prim |-> inflight[i].req.prim, net |-> net,
                 outcome |-> requestSettle(net)]
  /\ inflight' = [inflight EXCEPT ![i] = Idle]
  /\ UNCHANGED <<phase, thrown, baseUrl, apiKey, token, lastSet, given, peer>>

\* Settle that issues the call again when it failed (non-success status or
\* transport failure): the failure is noted and the call stays in flight.
Settle_retryOnFailure(i, net) ==
  /\ settled' = [prim |-> inflight[i].req.prim, net |-> net,
                 outcome |-> IF inflight[i].req.prim = "auth"
                             THEN authSettle(net) ELSE requestSettle(net)]
  /\ inflight' = IF net.kind = "failure" \/ ~Ok(net)
                 THEN inflight
                 ELSE [inflight EXCEPT ![i] = Idle]
  /\ UNCHANGED <<phase, thrown, baseUrl, apiKey, token, lastSet, given, peer>>

\* The continuation of the primitive that issued the call in slot i
Settle(i, net) ==
  /\ settled' = [prim |-> inflight[i].req.prim, net |-> net,
                 outcome |-> IF inflight[i].req.prim = "auth"
                             THEN authSettle(net) ELSE requestSettle(net)]
  /\ inflight' = [inflight EXCEPT ![i] = Idle]
  /\ UNCHANGED <<phase, thrown, baseUrl, apiKey, token, lastSet, given, peer>>

\* fetch resolves with a response
FetchResponds ==
  \E i \in Busy, r \in Responses :
    Settle(i, HttpResponse(r[1], r[2]))

\* fetch rejects
FetchRejects ==
  \E i \in Busy, cause \in Causes :
    Settle(i, FetchRejection(cause))

Next ==
  \/ Construct \/ SetToken \/ GetToken
  \/ SignUp \/ SignIn \/ RefreshToken \/ SendMagicLink \/ SendPasswordRecovery
  \/ VerifyOTP \/ GetUser \/ UpdateUser \/ SignOut \/ InviteUser \/ ResetPassword
  \/ Get \/ Post \/ Put \/ Patch \/ Del \/ Delete \/ Request \/ Auth
  \/ FetchResponds \/ FetchRejects

Spec == Init /\ [][Next]_vars

---------------------------------------------------------------------------
(* The modular client: createSupabaseClient with doRequest and authRequest, and
   the methods that createAuthMethods, createUserMethods and createRestMethods
   build around them *)

\* doRequest(method, endpoint, queryParams?, body?): the statements of request,
\* with the third parameter the query parameters and the fourth the body
doRequest(method, endpoint, queryParams, body) ==
  request(method, endpoint, body, queryParams)

\* authRequest(endpoint, payload): the statements of auth
authRequest(endpoint, payload) == auth(endpoint, payload)

\* createAuthMethods
createAuthMethods_signUp(email, password) ==
  doRequest("POST", SIGNUP_API_PATH \o GrantType("signup"),
            Obj(<<<<"email", email>>, <<"password", password>>>>), Undef)

createAuthMethods_signIn(email, password) ==
  authRequest(TOKEN_API_PATH \o GrantType("password"),
              Obj(<<<<"email", email>>, <<"password", password>>>>))

createAuthMethods_refreshToken(refreshTokenValue) ==
  authRequest(TOKEN_API_PATH \o GrantType("refresh_token"),
              Obj(<<<<"refresh_token", refreshTokenValue>>>>))

createAuthMethods_sendMagicLink(email) ==
  doRequest("POST", MAGIC_LINK_API_PATH, Obj(<<<<"email", email>>>>), Undef)

createAuthMethods_sendPasswordRecovery(email) ==
  doRequest("POST", RECOVER_API_PATH, Obj(<<<<"email", email>>>>), Undef)

createAuthMethods_verifyOTP(email, tokenValue, otpType) ==
  doRequest("POST", VERIFY_API_PATH,
            Obj(<<<<"email", email>>, <<"token", tokenValue>>, <<"type", otpType>>>>),
            Undef)

\* createUserMethods
createUserMethods_getUser == doRequest("GET", USER_API_PATH, Undef, Undef)

createUserMethods_updateUser(payload) == doRequest("PUT", USER_API_PATH, Undef, payload)

createUserMethods_signOut == doRequest("POST", LOGOUT_API_PATH, Undef, Undef)

createUserMethods_inviteUser(email) ==
  doRequest("POST", INVITE_API_PATH, Undef, Obj(<<<<"email", email>>>>))

createUserMethods_resetPassword(tokenValue, newPassword) ==
  doRequest("POST", RESET_API_PATH \o GrantType("reset_password"), Undef,
            Obj(<<<<"token", tokenValue>>, <<"password", newPassword>>>>))

\* createRestMethods
createRestMethods_get(endpoint, queryParams) ==
  IF queryParams.t # "undefined"
  THEN doRequest("GET", endpoint, queryParams, Undef)
  ELSE doRequest("GET", endpoint, Undef, Undef)

createRestMethods_post(endpoint, data) == doRequest("POST", endpoint, data, Undef)

createRestMethods_put(endpoint, primaryKeyName, data, primaryKeyValue) ==
  doRequest("PUT", endpoint, data, Obj(<<<<primaryKeyName, primaryKeyValue>>>>))

createRestMethods_patch(endpoint, data, queryParams) ==
  doRequest("PATCH", endpoint, data, queryParams)

createRestMethods_del(endpoint, primaryKeyName, primaryKeyValue) ==
  doRequest("DELETE", endpoint, Obj(<<<<primaryKeyName, primaryKeyValue>>>>), Undef)

\* The invocations: args.data is the payload the method was given or built,
\* args.qp the filter
ModSignUp ==
  \E email \in Emails, password \in Passwords :
    Invoke("createAuthMethods.signUp",
           Args(<<>>, <<>>, Obj(<<<<"email", email>>, <<"password", password>>>>), Undef),
           createAuthMethods_signUp(email, password))

ModSignIn ==
  \E email \in Emails, password \in Passwords :
    Invoke("createAuthMethods.signIn",
           Args(<<>>, <<>>, Obj(<<<<"email", email>>, <<"password", password>>>>), Undef),
           createAuthMethods_signIn(email, password))

ModRefreshToken ==
  \E r \in RefreshTokens :
    Invoke("createAuthMethods.refreshToken",
           Args(<<>>, <<>>, Obj(<<<<"refresh_token", r>>>>), Undef),
           createAuthMethods_refreshToken(r))

ModSendMagicLink ==
  \E email \in Emails :
    Invoke("createAuthMethods.sendMagicLink",
           Args(<<>>, <<>>, Obj(<<<<"email", email>>>>), Undef),
           createAuthMethods_sendMagicLink(email))

ModSendPasswordRecovery ==
  \E email \in Emails :
    Invoke("createAuthMethods.sendPasswordRecovery",
           Args(<<>>, <<>>, Obj(<<<<"email", email>>>>), Undef),
           createAuthMethods_sendPasswordRecovery(email))

ModVerifyOTP ==
  \E email \in Emails, code \in OtpCodes, type \in OtpTypes :
    Invoke("createAuthMethods.verifyOTP",
           Args(<<>>, <<>>,
                Obj(<<<<"email", email>>, <<"token", code>>, <<"type", type>>>>), Undef),
           createAuthMethods_verifyOTP(email, code, type))

ModGetUser == Invoke("createUserMethods.getUser", NoArgs, createUserMethods_getUser)

ModUpdateUser ==
  \E payload \in UserPayloads :
    Invoke("createUserMethods.updateUser", Args(<<>>, <<>>, payload, Undef),
           createUserMethods_updateUser(payload))

ModSignOut == Invoke("createUserMethods.signOut", NoArgs, createUserMethods_signOut)

ModInviteUser ==
  \E email \in Emails :
    Invoke("createUserMethods.inviteUser",
           Args(<<>>, <<>>, Obj(<<<<"email", email>>>>), Undef),
           createUserMethods_inviteUser(email))

ModResetPassword ==
  \E code \in OtpCodes, password \in Passwords :
    Invoke("createUserMethods.resetPassword",
           Args(<<>>, <<>>, Obj(<<<<"token", code>>, <<"password", password>>>>), Undef),
           createUserMethods_resetPassword(code, password))

ModGet ==
  \E endpoint \in Tables, queryParams \in Filters \cup {Undef} :
    Invoke("createRestMethods.get", Args(endpoint, <<>>, Undef, queryParams),
           createRestMethods_get(endpoint, queryParams))

ModPost ==
  \E endpoint \in Tables, data \in Rows :
    Invoke("createRestMethods.post", Args(endpoint, <<>>, data, Undef),
           createRestMethods_post(endpoint, data))

ModPut ==
  \E endpoint \in Tables, k \in KeyNames, v \in KeyValues, data \in Rows :
    Invoke("createRestMethods.put", Args(endpoint, <<>>, data, Obj(<<<<k, v>>>>)),
           createRestMethods_put(endpoint, k, data, v))

ModPatch ==
  \E endpoint \in Tables, queryParams \in Filters, data \in Rows :
    Invoke("createRestMethods.patch", Args(endpoint, <<>>, data, queryParams),
           createRestMethods_patch(endpoint, data, queryParams))

ModDel ==
  \E endpoint \in Tables, k \in KeyNames, v \in KeyValues :
    Invoke("createRestMethods.del", Args(endpoint, <<>>, Undef, Obj(<<<<k, v>>>>)),
           createRestMethods_del(endpoint, k, v))

\* delete: restMethods.del
ModDelete ==
  \E endpoint \in Tables, k \in KeyNames, v \in KeyValues :
    Invoke("createRestMethods.delete", Args(endpoint, <<>>, Undef, Obj(<<<<k, v>>>>)),
           createRestMethods_del(endpoint, k, v))

NextModular ==
  \/ Construct
  \/ ModSignUp \/ ModSignIn \/ ModRefreshToken \/ ModSendMagicLink
  \/ ModSendPasswordRecovery \/ ModVerifyOTP
  \/ ModGetUser \/ ModUpdateUser \/ ModSignOut \/ ModInviteUser \/ ModResetPassword
  \/ ModGet \/ ModPost \/ ModPut \/ ModPatch \/ ModDel \/ ModDelete
  \/ FetchResponds \/ FetchRejects

SpecModular == Init /\ [][NextModular]_vars

---------------------------------------------------------------------------
(* The transport answers every call: it responds or it fails *)

\* fetch settles for the call in slot i
SettleSlot(i) ==
  /\ i \in Busy
  /\ \/ \E r \in Responses : Settle(i, HttpResponse(r[1], r[2]))
     \/ \E cause \in Causes : Settle(i, FetchRejection(cause))

\* Methods of both primitives, with and without a body
NextLive ==
  \/ Construct \/ SignUp \/ SignIn \/ RefreshToken \/ GetUser \/ Post \/ Del
  \/ FetchResponds \/ FetchRejects

SpecLive == Init /\ [][NextLive]_vars /\ \A i \in Slots : WF_vars(SettleSlot(i))

---------------------------------------------------------------------------
(* A caller that repeats get, doing nothing else in between *)

NextRepeat == Construct \/ Get \/ FetchResponds \/ FetchRejects

SpecRepeat == Init /\ [][NextRepeat]_vars

---------------------------------------------------------------------------
(* A caller with two clients, each made by its own call of createSupabaseClient *)

\* The configurations of the second project
SecondConfigs ==
  [baseUrl : {"https://other.supabase.co"},
   apiKey : {"other_api_key"},
   token : {Undefined, "jwt"}]

\* createSupabaseClient(config) for a project of its own
ConstructSecond == \E config \in SecondConfigs : Create(config)

\* The closure of the client now at hand, as the other client's closure
Closure ==
  [id |-> 3 - peer.id, phase |-> phase, thrown |-> thrown, baseUrl |-> baseUrl,
   apiKey |-> apiKey, token |-> token, lastSet |-> lastSet, given |-> given]

\* The caller turns to its other client, with `token` one variable of the module
\* that both clients share.
Swap_sharedToken ==
  /\ peer' = Closure
  /\ phase' = peer.phase
  /\ thrown' = peer.thrown
  /\ baseUrl' = peer.baseUrl
  /\ apiKey' = peer.apiKey
  /\ lastSet' = peer.lastSet
  /\ given' = peer.given
  /\ UNCHANGED <<token, inflight, settled>>

\* The caller turns to its other client: baseUrl, apiKey and token are variables
\* of the call of createSupabaseClient that made the client.
Swap ==
  /\ peer' = Closure
  /\ phase' = peer.phase
  /\ thrown' = peer.thrown
  /\ baseUrl' = peer.baseUrl
  /\ apiKey' = peer.apiKey
  /\ token' = peer.token
  /\ lastSet' = peer.lastSet
  /\ given' = peer.given
  /\ UNCHANGED <<inflight, settled>>

NextTwo ==
  \/ Construct \/ ConstructSecond \/ Swap \/ SetToken \/ GetToken
  \/ SignIn \/ GetUser \/ FetchResponds \/ FetchRejects

SpecTwo == Init /\ [][NextTwo]_vars

---------------------------------------------------------------------------
(* Properties *)

InflightCalls == {inflight[i] : i \in Busy}

\* sub occurs in s as a run of consecutive tokens
Contains(s, sub) ==
  \E i \in 0..(Len(s) - Len(sub)) : SubSeq(s, i + 1, i + Len(sub)) = sub

\* The query string of a URL: what follows its first "?"
QueryOf(url) ==
  IF "?" \in Range(url)
  THEN LET i == CHOOSE i \in 1..Len(url) :
                  url[i] = "?" /\ \A j \in 1..(i - 1) : url[j] # "?"
       IN SubSeq(url, i + 1, Len(url))
  ELSE <<>>

\* Two query strings joined
JoinQuery(a, b) ==
  IF a = <<>> THEN b ELSE IF b = <<>> THEN a ELSE a \o <<"&">> \o b

\* The call was answered with a non-success status / a success status
AnsweredNotOk(s) == s.net.kind = "response" /\ ~(s.net.status \in 200..299)
AnsweredOk(s) == s.net.kind = "response" /\ s.net.status \in 200..299

\* C1: every call a public method issues carries apikey = the API key,
\* Authorization = "Bearer " + the token current when the call is issued if that
\* token is set (non-empty), "Bearer " + the API key otherwise, and
\* Content-Type = application/json.
C1_HeadersOnEveryCall ==
  [][\A i \in Slots :
       (inflight[i] = Idle /\ inflight'[i] # Idle) =>
         LET h == inflight'[i].req.headers
         IN /\ h.apikey = apiKey
            /\ h.Authorization =
                 <<"Bearer ", IF token \in {Undefined, ""} THEN apiKey ELSE token>>
            /\ h.ContentType = "application/json"]_vars

\* C1 witness: a call of the auth primitive in flight that presents the token, and
\* the client's token cleared since.
C1_Witness ==
  \E c \in InflightCalls :
    /\ c.req.prim = "auth"
    /\ c.req.headers.Authorization = <<"Bearer ", "jwt">>
    /\ c.req.headers.apikey = "test_api_key"
    /\ token = ""

\* C2 (as claimed): a request-primitive call answered with a non-success status
\* rejects with the client's error whose message contains "Request failed", whose
\* statusCode is the HTTP status and whose response is the raw response text.
C2_RequestFailedCarriesStatus ==
  (settled.prim = "request" /\ AnsweredNotOk(settled)) =>
    /\ settled.outcome.kind = "rejected"
    /\ settled.outcome.error.cls = "SupabaseError"
    /\ "Request failed" \in Range(settled.outcome.error.message)
    /\ settled.outcome.error.statusCode = {settled.net.status}
    /\ settled.outcome.error.response = {settled.net.text}

\* C3 (as claimed): when fetch rejects, the request primitive rejects with the
\* client's error: message contains "Network error", no status code, the cause
\* kept in response.
C3_TransportFailureWrapped ==
  (settled.prim = "request" /\ settled.net.kind = "failure") =>
    /\ settled.outcome.kind = "rejected"
    /\ settled.outcome.error.cls = "SupabaseError"
    /\ "Network error" \in Range(settled.outcome.error.message)
    /\ settled.outcome.error.statusCode = {}
    /\ settled.outcome.error.response = {settled.net.cause}

\* C4: a call (of either primitive) answered with a non-success status never
\* resolves: it rejects with the client's error raised for the failed request,
\* whatever the body (empty, JSON or plain text).
C4_NonSuccessNeverResolves ==
  AnsweredNotOk(settled) =>
    /\ settled.outcome.kind = "rejected"
    /\ settled.outcome.value = Undef
    /\ settled.outcome.error.cls = "SupabaseError"
    /\ \/ "Request failed" \in Range(settled.outcome.error.message)
       \/ "Auth request failed" \in Range(settled.outcome.error.message)

\* C4 witness: a status 500 with an empty body, answered to the request primitive,
\* was rejected.
C4_Witness ==
  /\ settled.prim = "request"
  /\ settled.net.kind = "response"
  /\ settled.net.status = 500
  /\ settled.net.text = ""
  /\ settled.outcome.kind = "rejected"

\* C5: createSupabaseClient throws "Invalid client configuration" exactly when
\* baseUrl or apiKey is empty or absent; then there is no client and no network
\* call was made; and no later operation raises that error.
C5_InvalidConfigRejected ==
  /\ phase # "new" =>
       (phase = "failed" <=>
          (given.baseUrl \in {Undefined, ""} \/ given.apiKey \in {Undefined, ""}))
  /\ phase = "failed" =>
       /\ thrown = SupabaseError(<<"Invalid client configuration">>, {}, {})
       /\ baseUrl = Undefined /\ apiKey = Undefined /\ token = Undefined
  /\ phase \in {"new", "failed"} => (Busy = {} /\ settled = NothingSettled)
  /\ phase = "ready" => thrown = NoError
  /\ settled.outcome.error.message # <<"Invalid client configuration">>

\* C5 witness: a construction with a base URL and an empty API key has thrown.
C5_Witness ==
  /\ phase = "failed"
  /\ given.baseUrl = "https://example.supabase.co"
  /\ given.apiKey = ""
  /\ thrown.cls = "SupabaseError"

\* C6: getToken returns the argument of the latest setToken (the empty string
\* included), or the token given at construction (undefined if none) when
\* setToken was never called.
C6_GetTokenReturnsLatest ==
  settled.prim = "getToken" =>
    settled.outcome = Resolved(IF lastSet = Undefined THEN Undef ELSE Str(lastSet))

\* C6 witness: getToken returned the empty string after setToken('').
C6_Witness ==
  /\ settled.prim = "getToken"
  /\ lastSet = ""
  /\ settled.outcome.value = Str("")

\* C7: a request-primitive call answered with a success status resolves to {} for
\* an empty text, to the parsed value for a text that is JSON, and to the text
\* itself otherwise; it never rejects.
C7_SuccessBodyHandling ==
  (settled.prim = "request" /\ AnsweredOk(settled)) =>
    /\ settled.outcome.kind = "resolved"
    /\ settled.net.text = "" => settled.outcome.value = Obj(<<>>)
    /\ settled.net.text \in {T_OBJ, T_OBJ_WS} =>
         settled.outcome.value = Obj(<<<<"id", "2">>>>)
    /\ settled.net.text = T_USERS =>
         settled.outcome.value = Arr(<<<<"id", "1">>, <<"name", "Test">>>>)
    /\ settled.net.text = T_BAD => settled.outcome.value = Str(T_BAD)

\* C7 witness: a 204 with an empty body, answered to the request primitive,
\* resolved to {}.
C7_Witness ==
  /\ settled.prim = "request"
  /\ settled.net.status = 204
  /\ settled.net.text = ""
  /\ settled.outcome = Resolved(Obj(<<>>))

\* C8 (as claimed): del(endpoint, primaryKeyName, primaryKeyValue) issues a DELETE
\* whose query string carries primaryKeyName=primaryKeyValue: the URL that put
\* with the same endpoint and key produces.
C8_DelCarriesKeyFilter ==
  \A c \in InflightCalls :
    c.op = "del" =>
      /\ c.req.method = "DELETE"
      /\ Contains(c.req.url, <<c.args.strs[1], "=", c.args.strs[2]>>)
      /\ \A data \in Rows :
           c.req.url = put(c.args.endpoint, c.args.strs[1], c.args.strs[2], data).url

\* C9: put and patch send PUT resp. PATCH, the JSON of data as the body and the
\* filter (and nothing of data) in the query string, after whatever query the
\* endpoint itself carries.
C9_PutPatchBodyAndFilter ==
  \A c \in InflightCalls :
    c.op \in {"put", "patch"} =>
      LET filter == IF c.op = "put"
                    THEN <<<<c.args.strs[1], c.args.strs[2]>>>>
                    ELSE c.args.qp.kv
      IN /\ c.req.method = (IF c.op = "put" THEN "PUT" ELSE "PATCH")
         /\ c.req.hasBody
         /\ c.req.body = JSONStringify(c.args.data)
         /\ QueryOf(c.req.url) =
              JoinQuery(QueryOf(c.args.endpoint), URLSearchParams(filter))
         /\ \A j \in 1..Len(c.args.data.kv) :
              /\ c.args.data.kv[j][1] \notin Range(c.req.url)
              /\ c.args.data.kv[j][2] \notin Range(c.req.url)
         /\ \A j \in 1..Len(filter) : filter[j][1] \notin Range(c.req.body)

\* C9 witness: put('users', 'id', '1', data) in flight with ?id=1 in its URL and
\* the name of data in its body.
C9_Witness ==
  \E c \in InflightCalls :
    /\ c.op = "put"
    /\ c.args.endpoint = <<"users">>
    /\ QueryOf(c.req.url) = <<"id", "=", "1">>
    /\ "name" \in Range(c.req.body)

EndsWith(s, suf) ==
  Len(s) >= Len(suf) /\ SubSeq(s, Len(s) - Len(suf) + 1, Len(s)) = suf

\* How often the token x occurs in s
CountOf(s, x) == Cardinality({i \in 1..Len(s) : s[i] = x})

\* The REST table operations
TableOps == {"get", "post", "put", "patch", "del", "delete"}

\* C11 (as claimed): get formats its query parameters with the eq. operator: every
\* pair k, v of the caller's map is sent as k=eq.v (get('users', {id: '1'}) asks
\* for users?id=eq.1).
C11_GetFormatsWithEq ==
  \A c \in InflightCalls :
    (c.op = "get" /\ c.args.qp.t = "object") =>
      /\ c.req.method = "GET"
      /\ \A j \in 1..Len(c.args.qp.kv) :
           Contains(c.req.url,
                    <<c.args.qp.kv[j][1], "=", EqValue(c.args.qp.kv[j][2])>>)
      /\ c.args.qp = Obj(<<<<"id", "1">>>>) => Contains(c.req.url, <<"id", "=", "eq.1">>)

\* C12 (as claimed): a REST table operation called with a table name T sends its
\* request to baseUrl + '/rest/v1/' + T: the URL begins with the base URL, the REST
\* root path, a slash and T.
C12_RestRootPrefix ==
  \A c \in InflightCalls :
    (c.op \in TableOps /\ ~StartsWithHttp(c.args.endpoint)) =>
      LET expected == <<baseUrl, "/", "rest/v1", "/">> \o c.args.endpoint
      IN /\ Len(c.req.url) >= Len(expected)
         /\ SubSeq(c.req.url, 1, Len(expected)) = expected

\* C13 (as claimed): the URL of a call with a non-absolute endpoint is the base
\* URL, exactly one slash, and the endpoint: no two slashes in a row at the join
\* (nor anywhere after the base URL).
C13_SingleSlashJoin ==
  \A c \in InflightCalls :
    Head(c.req.url) = baseUrl =>
      /\ c.req.url[2] = "/"
      /\ c.req.url[3] # "/"
      /\ ~Contains(c.req.url, <<"/", "/">>)

\* C14: the query parameters handed to the request primitive, when the map is not
\* empty, are appended to the URL after "?" if the URL holds no "?" yet and after
\* "&" if it does, so that the URL holds exactly one "?"; when the map is absent
\* or empty the URL ends with the endpoint as given and gains no "?".
C14_QuerySeparator ==
  \A c \in InflightCalls :
    (c.op \in TableOps \cup {"request"}) =>
      LET qp  == CASE c.op \in {"get", "patch", "request"} -> c.args.qp
                   [] c.op = "put" -> Obj(<<<<c.args.strs[1], c.args.strs[2]>>>>)
                   [] OTHER -> Undef
          url == c.req.url
          p   == URLSearchParams(qp.kv)
          n   == Len(url) - Len(p)
      IN IF qp.t = "object" /\ qp.kv # <<>>
         THEN /\ n >= 2
              /\ SubSeq(url, n + 1, Len(url)) = p
              /\ EndsWith(SubSeq(url, 1, n - 1), c.args.endpoint)
              /\ url[n] = (IF "?" \in Range(c.args.endpoint) THEN "&" ELSE "?")
              /\ CountOf(url, "?") = 1
         ELSE /\ EndsWith(url, c.args.endpoint)
              /\ url[Len(url)] # "?"
              /\ CountOf(url, "?") = CountOf(c.args.endpoint, "?")

\* C14 witness: get('orders?select=id', {id: '1'}) in flight, its filter joined
\* with "&"; the URL holds one "?".
C14_Witness ==
  \E c \in InflightCalls :
    /\ c.op = "get"
    /\ c.args.qp = Obj(<<<<"id", "1">>>>)
    /\ EndsWith(c.req.url, <<"orders", "?", "select", "=", "id", "&", "id", "=", "1">>)
    /\ CountOf(c.req.url, "?") = 1

\* C15: when the backend answers signIn with a success status and a JSON object,
\* signIn resolves to that object: for the token response, the four properties
\* access_token, token_type, expires_in and refresh_token with the values sent,
\* in that order and nothing else.
C15_SignInResolvesToBackendJson ==
  [][\A i \in Slots :
       (/\ inflight[i].op = "signIn"
        /\ inflight'[i] = Idle
        /\ settled'.net.kind = "response"
        /\ settled'.net.status \in 200..299) =>
         /\ settled'.net.text = T_TOKEN =>
              settled'.outcome =
                Resolved(Obj(<<<<"access_token", "access_token_value">>,
                               <<"token_type", "bearer">>,
                               <<"expires_in", "3600">>,
                               <<"refresh_token", "refresh_token_value">>>>))
         /\ settled'.net.text \in {T_OBJ, T_OBJ_WS} =>
              settled'.outcome = Resolved(Obj(<<<<"id", "2">>>>))]_vars

\* C15 witness: the token response, answered with status 200 to a call of the auth
\* primitive, resolved to an object of the four properties.
C15_Witness ==
  /\ settled.prim = "auth"
  /\ settled.net.status = 200
  /\ settled.net.text = T_TOKEN
  /\ settled.outcome.kind = "resolved"
  /\ Keys(settled.outcome.value) =
       <<"access_token", "token_type", "expires_in", "refresh_token">>

\* The method, the path under the auth root and the body listed for each auth and
\* user method; a is the argument list of the call.
Listed(op, a, payload) ==
  CASE op = "signUp" ->
         [method |-> "POST", path |-> <<"/signup", "?", "grant_type", "=", "signup">>,
          body |-> {Obj(<<<<"email", a[1]>>, <<"password", a[2]>>>>)}]
    [] op = "signIn" ->
         [method |-> "POST", path |-> <<"/token", "?", "grant_type", "=", "password">>,
          body |-> {Obj(<<<<"email", a[1]>>, <<"password", a[2]>>>>)}]
    [] op = "refreshToken" ->
         [method |-> "POST",
          path |-> <<"/token", "?", "grant_type", "=", "refresh_token">>,
          body |-> {Obj(<<<<"refresh_token", a[1]>>>>)}]
    [] op = "sendMagicLink" ->
         [method |-> "POST", path |-> <<"/magiclink">>,
          body |-> {Obj(<<<<"email", a[1]>>>>)}]
    [] op = "sendPasswordRecovery" ->
         [method |-> "POST", path |-> <<"/recover">>,
          body |-> {Obj(<<<<"email", a[1]>>>>)}]
    [] op = "verifyOTP" ->
         [method |-> "POST", path |-> <<"/verify">>,
          body |-> {Obj(<<<<"email", a[1]>>, <<"token", a[2]>>, <<"type", a[3]>>>>)}]
    [] op = "getUser" -> [method |-> "GET", path |-> <<"/user">>, body |-> {}]
    [] op = "updateUser" -> [method |-> "PUT", path |-> <<"/user">>, body |-> {payload}]
    [] op = "signOut" -> [method |-> "POST", path |-> <<"/logout">>, body |-> {}]
    [] op = "inviteUser" ->
         [method |-> "POST", path |-> <<"/invite">>,
          body |-> {Obj(<<<<"email", a[1]>>>>)}]
    [] op = "resetPassword" ->
         [method |-> "POST",
          path |-> <<"/reset", "?", "grant_type", "=", "reset_password">>,
          body |-> {Obj(<<<<"token", a[1]>>, <<"password", a[2]>>>>)}]

AuthAndUserOps ==
  {"signUp", "signIn", "refreshToken", "sendMagicLink", "sendPasswordRecovery",
   "verifyOTP", "getUser", "updateUser", "signOut", "inviteUser", "resetPassword"}

\* C16: each auth and user method sends the HTTP method listed for it, to the path
\* listed for it under auth/v1 (with its grant_type where one is listed and no
\* other query), with the JSON of the listed object as the body, or no body where
\* none is listed.
C16_AuthMethodsAsListed ==
  \A c \in InflightCalls :
    c.op \in AuthAndUserOps =>
      LET l == Listed(c.op, c.args.strs, c.args.data)
      IN /\ c.req.method = l.method
         /\ EndsWith(c.req.url, <<"auth/v1">> \o l.path)
         /\ c.req.hasBody = (l.body # {})
         /\ \A o \in l.body : c.req.body = JSONStringify(o)
         /\ l.body = {} => c.req.body = <<>>

\* C16 witness: resetPassword('123456', 'password123') in flight, the new password
\* under the key password.
C16_Witness ==
  \E c \in InflightCalls :
    /\ c.op = "resetPassword"
    /\ c.req.method = "POST"
    /\ EndsWith(c.req.url, <<"/reset", "?", "grant_type", "=", "reset_password">>)
    /\ Contains(c.req.body, <<"\"", "password", "\"", ":", "\"", "password123", "\"">>)

\* C17: a call of the auth primitive answered with a success status and a body
\* that is not JSON (the empty body included) rejects with the parser's error; it
\* resolves neither to the text nor to {}.
C17_AuthStrictParse ==
  (/\ settled.prim = "auth"
   /\ AnsweredOk(settled)
   /\ settled.net.text \notin {T_USERS, T_OBJ, T_OBJ_WS, T_TOKEN}) =>
    /\ settled.outcome.kind = "rejected"
    /\ settled.outcome.value = Undef
    /\ settled.outcome.error.cls = "SyntaxError"

\* C17 witness: a 204 with an empty body, answered to the auth primitive, was
\* rejected with a SyntaxError.
C17_Witness ==
  /\ settled.prim = "auth"
  /\ settled.net.status = 204
  /\ settled.net.text = ""
  /\ settled.outcome.kind = "rejected"
  /\ settled.outcome.error.cls = "SyntaxError"

\* C18 (as claimed): an auth-primitive call answered with a non-success status
\* rejects with the client's error whose statusCode is the HTTP status and whose
\* response is the raw response text.
C18_AuthFailureCarriesStatus ==
  (settled.prim = "auth" /\ AnsweredNotOk(settled)) =>
    /\ settled.outcome.kind = "rejected"
    /\ settled.outcome.error.cls = "SupabaseError"
    /\ settled.outcome.error.statusCode = {settled.net.status}
    /\ settled.outcome.error.response = {settled.net.text}

\* C19: delete(endpoint, primaryKeyName, primaryKeyValue) issues the very call
\* del issues for the same arguments in the same client state (method, URL,
\* headers, body), through the same primitive, which settles it alike.
C19_DeleteIsDel ==
  [][\A i \in Slots :
       (inflight[i] = Idle /\ inflight'[i].op = "delete") =>
         LET a == inflight'[i].args
         IN /\ inflight'[i].req = del(a.endpoint, a.strs[1], a.strs[2])
            /\ inflight'[i].req.prim = "request"]_vars

\* C19 witness: delete('users', 'id', '1') in flight as a DELETE of
\* <baseUrl>/users with {"id":"1"} as its body, which is what del sends.
C19_Witness ==
  \E c \in InflightCalls :
    /\ c.op = "delete"
    /\ c.req.method = "DELETE"
    /\ c.req.url = <<baseUrl, "/", "users">>
    /\ c.req.body = <<"{", "\"", "id", "\"", ":", "\"", "1", "\"", "}">>

\* C20: in every step, a call that stays in flight keeps its request (headers
\* included) whatever else happens, a setToken included; a call that is issued
\* carries "Bearer " + the value most recently given to setToken (or given at
\* construction), the API key standing in for an empty or absent value; and the
\* call that settles is settled by its own primitive with the token left alone.
C20_SetTokenVsInflight ==
  [][\A i \in Slots :
       /\ (inflight[i] # Idle /\ inflight'[i] # Idle) => inflight'[i] = inflight[i]
       /\ (inflight[i] = Idle /\ inflight'[i] # Idle) =>
            inflight'[i].req.headers.Authorization =
              <<"Bearer ", IF lastSet \in {Undefined, ""} THEN apiKey ELSE lastSet>>
       /\ (inflight[i] # Idle /\ inflight'[i] = Idle) =>
            /\ settled'.prim = inflight[i].req.prim
            /\ token' = token]_vars

\* C20 witness: a call in flight that presents the API key, issued before
\* setToken('jwt') made jwt the client's token.
C20_Witness ==
  \E c \in InflightCalls :
    /\ c.req.headers.Authorization = <<"Bearer ", "test_api_key">>
    /\ token = "jwt"
    /\ lastSet = "jwt"

\* C21: with two clients, each client's token is the value last given to that
\* client (by setToken, or at construction), and its base URL and API key are
\* those it was constructed with; getToken returns the client's own token; an
\* operation on one client leaves the other client's closure as it was; and a call
\* is issued to the base URL, with the apikey and the credential, of the client it
\* is invoked on.
C21_ClientsIndependent ==
  /\ [](/\ phase = "ready" =>
             /\ token = lastSet
             /\ baseUrl = given.baseUrl
             /\ apiKey = given.apiKey
        /\ peer.phase = "ready" =>
             /\ peer.token = peer.lastSet
             /\ peer.baseUrl = peer.given.baseUrl
             /\ peer.apiKey = peer.given.apiKey)
  /\ [][/\ peer'.id = peer.id => peer' = peer
        /\ (settled' # settled /\ settled'.prim = "getToken") =>
             settled'.outcome =
               Resolved(IF lastSet = Undefined THEN Undef ELSE Str(lastSet))
        /\ \A i \in Slots :
             (inflight[i] = Idle /\ inflight'[i] # Idle) =>
               LET r == inflight'[i].req
               IN /\ Head(r.url) = given.baseUrl
                  /\ r.headers.apikey = given.apiKey
                  /\ r.headers.Authorization =
                       <<"Bearer ",
                         IF lastSet \in {Undefined, ""} THEN given.apiKey ELSE lastSet>>]_vars

\* C21 witness: both clients constructed, for different projects; setToken('')
\* was just called on the client at hand and the other client still holds jwt,
\* with a call of the other client in flight.
C21_Witness ==
  /\ phase = "ready"
  /\ peer.phase = "ready"
  /\ baseUrl # peer.baseUrl
  /\ settled.prim = "setToken"
  /\ token = ""
  /\ peer.token = "jwt"
  /\ \E c \in InflightCalls :
       /\ Head(c.req.url) = peer.baseUrl
       /\ c.req.headers.Authorization = <<"Bearer ", "jwt">>

\* C22: a step changes at most one call; the invocation of a method puts exactly
\* one call in flight and completes nothing; the completion of a call (with a
\* success, a non-success status or a transport failure) takes that call out of
\* flight and puts no call in flight: nothing is retried, nothing follows up.
C22_OneCallPerInvocation ==
  [][/\ \A i, j \in Slots :
          (inflight'[i] # inflight[i] /\ inflight'[j] # inflight[j]) => i = j
     /\ \A i \in Slots :
          /\ (inflight[i] = Idle /\ inflight'[i] # Idle) =>
               /\ Cardinality(Busy') = Cardinality(Busy) + 1
               /\ settled' = settled
          /\ (inflight[i] # Idle /\ inflight'[i] # inflight[i]) =>
               /\ inflight'[i] = Idle
               /\ settled'.prim = inflight[i].req.prim
     /\ (settled' # settled /\ settled'.prim \in {"request", "auth"}) =>
          /\ Cardinality(Busy') = Cardinality(Busy) - 1
          /\ \A i \in Slots : inflight'[i] \in {inflight[i], Idle}]_vars

\* C22 witness: the one call in flight was answered by a transport failure and no
\* call is in flight.
C22_Witness ==
  /\ settled.prim = "request"
  /\ settled.net.kind = "failure"
  /\ settled.outcome.kind = "rejected"
  /\ Busy = {}

\* C23: given a transport that answers, every call in flight settles: it leaves
\* flight, and it does so only by resolving or rejecting on the transport's
\* answer (a response or a failure), never by being dropped or cancelled.
C23_EveryCallSettles ==
  /\ \A i \in Slots : (inflight[i] # Idle) ~> (inflight[i] = Idle)
  /\ [][\A i \in Slots :
          (inflight[i] # Idle /\ inflight'[i] # inflight[i]) =>
            /\ inflight'[i] = Idle
            /\ settled'.net.kind \in {"response", "failure"}
            /\ settled'.outcome.kind \in {"resolved", "rejected"}
            /\ settled'.outcome.kind = "resolved" => settled'.outcome.error = NoError
            /\ settled'.outcome.kind = "rejected" => settled'.outcome.error # NoError]_vars

\* C23 witness: a call of the auth primitive has settled on a status 500, as a
\* rejection, and is no longer in flight.
C23_Witness ==
  /\ settled.prim = "auth"
  /\ settled.net.status = 500
  /\ settled.outcome.kind = "rejected"
  /\ Busy = {}

C25_OnlySetTokenChangesState ==
  phase = "ready" =>
    /\ token = lastSet
    /\ baseUrl = given.baseUrl
    /\ apiKey = given.apiKey

\* C25 witness: a call of the auth primitive resolved to the token response of the
\* backend, and the client, constructed without a token, still has none.
C25_Witness ==
  /\ settled.prim = "auth"
  /\ settled.net.text = T_TOKEN
  /\ settled.outcome.kind = "resolved"
  /\ lastSet = Undefined
  /\ token = Undefined

\* C27: once setToken('') was called, getToken returns '' and a call that is
\* issued carries "Bearer " + the API key, the header an absent token gives; no
\* call is ever issued with an empty credential after "Bearer ".
C27_EmptyTokenIsNoToken ==
  /\ []((settled.prim = "getToken" /\ lastSet = "") => settled.outcome = Resolved(Str("")))
  /\ [][\A i \in Slots :
          (inflight[i] = Idle /\ inflight'[i] # Idle) =>
            LET h == inflight'[i].req.headers.Authorization
            IN /\ h[1] = "Bearer "
               /\ h[2] \notin {"", Undefined}
               /\ lastSet \in {"", Undefined} => h = <<"Bearer ", given.apiKey>>]_vars

\* C27 witness: the token was cleared with setToken(''), getToken returned '', and
\* a call presenting the API key is in flight.
C27_Witness ==
  /\ lastSet = ""
  /\ settled.prim = "getToken"
  /\ settled.outcome = Resolved(Str(""))
  /\ \E c \in InflightCalls :
       c.req.headers.Authorization = <<"Bearer ", "test_api_key">>

\* What follows "http" in the endpoints that begin with http:// or https://
AfterScheme == {"s://other.example/rest/v1/users"}

\* The endpoint is an absolute URL
IsAbsoluteUrl(endpoint) ==
  Len(endpoint) >= 2 /\ endpoint[1] = "http" /\ endpoint[2] \in AfterScheme

\* C28 (as claimed): the endpoint given to a REST method or to a primitive is the
\* URL as it stands exactly when it begins with http:// or https://; any other
\* endpoint, one that merely begins with the letters http included, is put after
\* the base URL.
C28_VerbatimOnlyIfAbsolute ==
  \A c \in InflightCalls :
    (c.op \in TableOps \cup {"request", "auth"}) =>
      LET e == c.args.endpoint
      IN IF IsAbsoluteUrl(e)
         THEN SubSeq(c.req.url, 1, Len(e)) = e
         ELSE /\ Head(c.req.url) = baseUrl
              /\ EndsWith(SubSeq(c.req.url, 1, Len(e) + 2), e)

\* C29 (as claimed): a call of the request primitive carries a body, the JSON of
\* the value supplied, only if its method is POST, PUT or PATCH; with any other
\* method no body is attached.
C29_BodyOnlyForWritingMethods ==
  \A c \in InflightCalls :
    c.req.prim = "request" =>
      /\ c.req.hasBody => c.req.method \in {"POST", "PUT", "PATCH"}
      /\ c.req.method \notin {"POST", "PUT", "PATCH"} => c.req.body = <<>>
      /\ (c.op = "request" /\ c.req.method \in {"POST", "PUT", "PATCH"}
          /\ c.args.data # Undef) => c.req.body = JSONStringify(c.args.data)

\* C30: the error the request primitive raises for a non-success status is the
\* error its caller gets: the client's error with the message
\* "Request failed: <status> <text>", not the network error, and with no error
\* in its response field.
C30_OwnErrorNotRewrapped ==
  (settled.prim = "request" /\ AnsweredNotOk(settled)) =>
    /\ settled.outcome.kind = "rejected"
    /\ settled.outcome.error.cls = "SupabaseError"
    /\ Head(settled.outcome.error.message) = "Request failed"
    /\ settled.outcome.error.message =
         <<"Request failed", ": ", StatusText(settled.net.status), " ", settled.net.text>>
    /\ "Network error" \notin Range(settled.outcome.error.message)
    /\ settled.outcome.error.response = {}

\* C30 witness: a status 400 with a JSON body, answered to the request primitive,
\* was rejected with the request-failed message.
C30_Witness ==
  /\ settled.prim = "request"
  /\ settled.net.status = 400
  /\ settled.net.text = T_OBJ
  /\ settled.outcome.error.message = <<"Request failed", ": ", "400", " ", T_OBJ>>

\* C26 (as claimed): in the modular client, the payload of a method is the JSON
\* body of its call and none of its property names or values is in the URL; a
\* method without a payload sends no body; and the filter of a method is the end
\* of the query string and none of its names is in the body.
C26_ModularArgumentPositions ==
  \A c \in InflightCalls :
    /\ c.args.data # Undef =>
         /\ c.req.hasBody
         /\ c.req.body = JSONStringify(c.args.data)
         /\ \A j \in 1..Len(c.args.data.kv) :
              /\ c.args.data.kv[j][1] \notin Range(c.req.url)
              /\ c.args.data.kv[j][2] \notin Range(c.req.url)
    /\ c.args.data = Undef => ~c.req.hasBody
    /\ (c.args.qp.t = "object" /\ c.args.qp.kv # <<>>) =>
         /\ EndsWith(c.req.url, URLSearchParams(c.args.qp.kv))
         /\ \A j \in 1..Len(c.args.qp.kv) : c.args.qp.kv[j][1] \notin Range(c.req.body)

====
